---------------------------- MODULE Spec2Model ----------------------------
(***************************************************************************)
(* canvara-datasource: a thin object-mapping layer over DynamoDB.          *)
(*                                                                         *)
(*   Schema      (src/lib/schema.js 1-197)   field validation and the      *)
(*                                           update-expression builder     *)
(*   Model       (src/lib/schema.js 198-413) request payloads and the      *)
(*                                           validate -> build -> submit   *)
(*                                           waterfalls                    *)
(*   Datasource  (src/index.js)              client construction and the   *)
(*                                           model factory                 *)
(*                                                                         *)
(* JavaScript values are tagged tuples (<<"string", "Ann">>, <<"number",   *)
(* 5>>, <<"undefined">>, ...), JavaScript objects are sequences of         *)
(* [k, v] records in property-insertion order, and JavaScript strings that *)
(* the code concatenates (messages, expressions, table names) are strings. *)
(***************************************************************************)
EXTENDS Naturals, Integers, Sequences, FiniteSets, TLC

(***************************************************************************)
(* JavaScript values                                                       *)
(***************************************************************************)
Undef == <<"undefined">>
Null == <<"null">>
Str(s) == <<"string", s>>
Num(n) == <<"number", n>>
Bool(b) == <<"boolean", b>>
Arr == <<"array">>
TypedArr == <<"typedarray">>
Obj == <<"object">>

\* !value
Truthy(v) ==
  CASE v[1] = "undefined" -> FALSE
    [] v[1] = "null" -> FALSE
    [] v[1] = "string" -> v[2] # ""
    [] v[1] = "number" -> v[2] # 0
    [] v[1] = "boolean" -> v[2]
    [] OTHER -> TRUE

\* the string a value becomes as an operand of + beside a string
ToStr(v) ==
  CASE v[1] = "string" -> v[2]
    [] v[1] = "undefined" -> "undefined"
    [] v[1] = "null" -> "null"
    [] OTHER -> "[object]"

\* lodash type predicates
isString(v) == v[1] = "string"
isNumber(v) == v[1] = "number"
isBoolean(v) == v[1] = "boolean"
isNull(v) == v[1] = "null"
isArray(v) == v[1] = "array"
isTypedArray(v) == v[1] = "typedarray"
isObject(v) == v[1] \in {"object", "array", "typedarray"}

(***************************************************************************)
(* JavaScript objects: own properties in insertion order                   *)
(***************************************************************************)
Keys(o) == {o[i].k : i \in 1..Len(o)}
hasOwnProperty(o, key) == key \in Keys(o)
IndexOf(o, key) == CHOOSE i \in 1..Len(o) : o[i].k = key
\* o[key]
Get(o, key) == IF hasOwnProperty(o, key) THEN o[IndexOf(o, key)].v ELSE Undef
\* o[key] = value
Put(o, key, value) ==
  IF hasOwnProperty(o, key)
  THEN [o EXCEPT ![IndexOf(o, key)] = [k |-> key, v |-> value]]
  ELSE Append(o, [k |-> key, v |-> value])

RECURSIVE extendFrom(_, _, _)
extendFrom(o, src, i) ==
  IF i > Len(src) THEN o ELSE extendFrom(Put(o, src[i].k, src[i].v), src, i + 1)
\* _.extend(o, src)
extend(o, src) == extendFrom(o, src, 1)

ValidationError(message) == <<"ValidationError", message>>
Error(message) == <<"Error", message>>

(***************************************************************************)
(* Schema                                                                  *)
(***************************************************************************)
SchemaTypes ==
  [String |-> "S", Number |-> "N", Binary |-> "B", StringSet |-> "SS",
   NumberSet |-> "NS", BinarySet |-> "BS", Map |-> "M", List |-> "L",
   Boolean |-> "BOOL", Null |-> "NULL"]

validateEach(key, value, schemaType) ==
  CASE schemaType = SchemaTypes.String ->
         IF ~isString(value)
         THEN ValidationError(key \o " should be a valid string") ELSE Undef
    [] schemaType = SchemaTypes.Number ->
         IF ~isNumber(value)
         THEN ValidationError(key \o " should be a valid number") ELSE Undef
    [] schemaType = SchemaTypes.Binary ->
         IF ~isTypedArray(value) \/ ~isString(value)
         THEN ValidationError(key \o " should be of binary type") ELSE Undef
    [] schemaType = SchemaTypes.StringSet ->
         IF ~isArray(value)
         THEN ValidationError(key \o " should be a valid string set") ELSE Undef
    [] schemaType = SchemaTypes.NumberSet ->
         IF ~isArray(value)
         THEN ValidationError(key \o " should be a valid number set") ELSE Undef
    [] schemaType = SchemaTypes.BinarySet ->
         IF ~isArray(value)
         THEN ValidationError(key \o " should be a valid binary set") ELSE Undef
    [] schemaType = SchemaTypes.Map ->
         IF ~isObject(value)
         THEN ValidationError(key \o " should be a valid object") ELSE Undef
    [] schemaType = SchemaTypes.Boolean ->
         IF ~isBoolean(value)
         THEN ValidationError(key \o " should be a valid boolean value") ELSE Undef
    [] schemaType = SchemaTypes.Null ->
         IF isNull(value)
         THEN ValidationError(key \o " should be null") ELSE Undef
    [] OTHER ->
         ValidationError(schemaType \o " is not a valid Schema.SchemaTypes value")

\* the _.forOwn callback of validate, from the i-th declared field on: `error`
\* is assigned by every field, so the last declared field's outcome is the one
\* that is left when the loop ends
RECURSIVE validateFrom(_, _, _, _, _)
validateFrom(definition, entity, i, error, validatedEntity) ==
  IF i > Len(definition)
  THEN [error |-> error, validatedEntity |-> validatedEntity]
  ELSE LET key == definition[i].k
           value == definition[i].v
           entityValue == Get(entity, key)
       IN IF value.required /\ ~Truthy(entityValue)
          THEN validateFrom(definition, entity, i + 1,
                            ValidationError(key \o " is required"), validatedEntity)
          ELSE validateFrom(definition, entity, i + 1,
                            validateEach(key, entityValue, value.type),
                            Put(validatedEntity, key, entityValue))

\* what validate hands its callback: [error, validatedEntity]
validate(definition, entity) ==
  LET r == validateFrom(definition, entity, 1, Undef, <<>>)
  IN IF Truthy(r.error)
     THEN [error |-> r.error, validatedEntity |-> Undef]
     ELSE [error |-> Null, validatedEntity |-> r.validatedEntity]

\* a faulty parseKey: an optional key with a falsy value is assigned, not removed
parseKey_falsyOptionalIsSet(details, value) ==
  IF details.required /\ ~Truthy(value) THEN "invalid" ELSE "set"

\* the if-chain parseUpdateFields applies to one declared key of the entity; its
\* last two branches follow four that already cover every case, and the last
\* would call the array removeSet as a function
parseKey(details, value) ==
  IF details.required /\ ~Truthy(value) THEN "invalid"
  ELSE IF details.required /\ Truthy(value) THEN "set"
  ELSE IF ~details.required /\ Truthy(value) THEN "set"
  ELSE IF ~details.required /\ ~Truthy(value) THEN "remove"
  ELSE IF Truthy(value) THEN "set"
  ELSE "throw"

\* the _.forOwn callback of parseUpdateFields, from the i-th own key of the
\* entity on; `return false` ends the loop
RECURSIVE parseFrom(_, _, _, _, _)
parseFrom(definition, entity, i, updateSet, removeSet) ==
  IF i > Len(entity)
  THEN [isValid |-> TRUE, invalidKey |-> "", updateSet |-> updateSet,
        removeSet |-> removeSet]
  ELSE LET key == entity[i].k
           value == entity[i].v
       IN IF hasOwnProperty(definition, key)
          THEN LET branch == parseKey(Get(definition, key), value)
               IN IF branch = "invalid"
                  THEN [isValid |-> FALSE, invalidKey |-> key,
                        updateSet |-> updateSet, removeSet |-> removeSet]
                  ELSE IF branch = "set"
                  THEN parseFrom(definition, entity, i + 1,
                                 Append(updateSet, key), removeSet)
                  ELSE parseFrom(definition, entity, i + 1,
                                 updateSet, Append(removeSet, key))
          ELSE parseFrom(definition, entity, i + 1, updateSet, removeSet)

\* s.substring(0, s.length - 1)
dropLast(s) == SubSeq(s, 1, Len(s) - 1)

\* updateSet.forEach: the SET clause and the bound values
RECURSIVE setFrom(_, _, _, _)
setFrom(params, entity, updateSet, i) ==
  IF i > Len(updateSet) THEN params
  ELSE LET key == updateSet[i]
       IN setFrom([UpdateExpression |->
                     params.UpdateExpression \o " " \o key \o " = :" \o key \o ",",
                   ExpressionAttributeValues |->
                     Put(params.ExpressionAttributeValues, ":" \o key,
                         Get(entity, key))],
                  entity, updateSet, i + 1)

\* removeSet.forEach: the REMOVE clause
RECURSIVE removeFrom(_, _, _)
removeFrom(expression, removeSet, i) ==
  IF i > Len(removeSet) THEN expression
  ELSE removeFrom(expression \o " " \o removeSet[i] \o ",", removeSet, i + 1)

\* what parseUpdateFields hands its callback, [error, params], with the two
\* lists it built on the way
parseUpdateFields(definition, entity, timestamp) ==
  LET params0 == [UpdateExpression |-> "SET updatedOn = :updatedOn",
                  ExpressionAttributeValues |->
                    <<[k |-> ":updatedOn", v |-> Num(timestamp)]>>]
      loop == parseFrom(definition, entity, 1, <<>>, <<>>)
      updateSet == loop.updateSet
      removeSet == loop.removeSet
      params1 == IF Len(updateSet) > 0
                 THEN LET p == setFrom(params0, entity, updateSet, 1)
                      IN [p EXCEPT !.UpdateExpression = dropLast(@)]
                 ELSE params0
      params2 == IF Len(removeSet) > 0
                 THEN [params1 EXCEPT !.UpdateExpression =
                         dropLast(removeFrom(IF @ = "" THEN "REMOVE"
                                             ELSE @ \o " REMOVE", removeSet, 1))]
                 ELSE params1
  IN IF ~loop.isValid
     THEN [error |-> ValidationError(loop.invalidKey \o " is required"),
           params |-> Undef, updateSet |-> updateSet, removeSet |-> removeSet]
     ELSE [error |-> Null, params |-> params2, updateSet |-> updateSet,
           removeSet |-> removeSet]

(***************************************************************************)
(* Model                                                                   *)
(***************************************************************************)
\* a faulty getPutRequestPayload: the generated fields are the target of the
\* _.extend and the entity its source, so the entity's own values win
getPutRequestPayload_entityWins(self, entity, id, timestamp) ==
  [Item |-> extend(<<[k |-> self.primaryKey, v |-> id],
                     [k |-> "createdOn", v |-> Num(timestamp)],
                     [k |-> "updatedOn", v |-> Num(timestamp)]>>, entity),
   ReturnConsumedCapacity |-> "NONE",
   ConditionExpression |-> "attribute_not_exists(" \o self.primaryKey \o ")",
   ReturnValues |-> "ALL_OLD"]

\* the params of putItem; id is the uuid.v4() and timestamp the
\* moment().valueOf() of the call
getPutRequestPayload(self, entity, id, timestamp) ==
  [Item |-> extend(entity, <<[k |-> self.primaryKey, v |-> id],
                             [k |-> "createdOn", v |-> Num(timestamp)],
                             [k |-> "updatedOn", v |-> Num(timestamp)]>>),
   ReturnConsumedCapacity |-> "NONE",
   ConditionExpression |-> "attribute_not_exists(" \o self.primaryKey \o ")",
   ReturnValues |-> "ALL_OLD"]

\* a faulty getUpdateRequestPayload: the condition of the put payload
getUpdateRequestPayload_putCondition(self, id, mapped) ==
  [UpdateExpression |-> mapped.UpdateExpression,
   ExpressionAttributeValues |-> mapped.ExpressionAttributeValues,
   tableName |-> self.tableName,
   Key |-> <<[k |-> self.primaryKey, v |-> id]>>,
   ReturnConsumedCapacity |-> "NONE",
   ConditionExpression |-> "attribute_not_exists(" \o self.primaryKey \o ")",
   ReturnValues |-> "ALL_NEW"]

\* the second task of getUpdateRequestPayload's waterfall: _.extend(mapped, ...)
getUpdateRequestPayload(self, id, mapped) ==
  [UpdateExpression |-> mapped.UpdateExpression,
   ExpressionAttributeValues |-> mapped.ExpressionAttributeValues,
   tableName |-> self.tableName,
   Key |-> <<[k |-> self.primaryKey, v |-> id]>>,
   ReturnConsumedCapacity |-> "NONE",
   ConditionExpression |-> "attribute_exists(" \o self.primaryKey \o ")",
   ReturnValues |-> "ALL_NEW"]

getGetRequestPayload(self, id) ==
  [tableName |-> self.tableName,
   Key |-> <<[k |-> self.primaryKey, v |-> id]>>,
   ConsistentRead |-> TRUE,
   ReturnConsumedCapacity |-> "NONE"]

getDeleteRequestPayload(self, id) ==
  [tableName |-> self.tableName,
   Key |-> <<[k |-> self.primaryKey, v |-> id]>>,
   ConditionExpression |-> "attribute_exists(" \o self.primaryKey \o ")",
   ReturnConsumedCapacity |-> "NONE"]

\* new Model(tableName, primaryKey, schema, serviceInstance): the instance, or
\* what the constructor throws
Model(tableName, primaryKey, schema, serviceInstance) ==
  IF ~Truthy(tableName)
  THEN [state |-> "threw", error |-> Error("Table name is required")]
  ELSE IF ~Truthy(schema)
  THEN [state |-> "threw", error |-> Error("Schema definition is required")]
  ELSE IF ~Truthy(serviceInstance)
  THEN [state |-> "threw", error |-> Error("Service instance is required")]
  ELSE [state |-> "created", tableName |-> ToStr(tableName), schema |-> schema,
        dynamodb |-> serviceInstance, primaryKey |-> primaryKey]

(***************************************************************************)
(* Datasource                                                              *)
(***************************************************************************)
\* new AWS.DynamoDB({...}): an object with putItem, getItem, updateItem and
\* deleteItem methods; not itself a function
DynamoDB(region) == <<"object", "AWS.DynamoDB", region>>

isFunction(v) == v[1] = "function"

\* new CanvaraDatasource(opts): the instance, or what the constructor throws;
\* the constructor assigns this.dynamodb and nothing else
CanvaraDatasource(opts) ==
  IF ~Truthy(opts.region)
  THEN [state |-> "threw", error |-> Error("AWS region is required")]
  ELSE IF ~Truthy(opts.applicationPrefix)
  THEN [state |-> "threw", error |-> Error("applicationPrefix is required")]
  ELSE [state |-> "constructed", dynamodb |-> DynamoDB(ToStr(opts.region)),
        applicationPrefix |-> Undef]

\* tableName = this.applicationPrefix + tableName
prefixed(self, tableName) == Str(ToStr(self.applicationPrefix) \o tableName)

(***************************************************************************)
(* Inputs                                                                  *)
(***************************************************************************)
\* the most own keys of an entity a caller passes
MaxKeys == 2
\* the most fields a schema definition declares
MaxFields == 2
\* the clock runs from 0 to MaxClock milliseconds
MaxClock == 1

Regions == {Undef, Str("us-east-1")}
Prefixes == {Undef, Str(""), Str("app_")}
TableNames == {"users"}
PrimaryKey == "id"
UUIDs == {"uuid-1", "uuid-2"}
Ids == {Str("id-7"), Str("uuid-1")}

FieldNames == {"name", "age", "updatedOn"}
FieldType(name) == IF name = "name" THEN SchemaTypes.String ELSE SchemaTypes.Number
Field(name, required) ==
  [k |-> name, v |-> [type |-> FieldType(name), required |-> required]]
RECURSIVE DefinitionsOver(_, _)
\* the definitions of at most n fields, none of them in `used`, in every
\* declaration order
DefinitionsOver(used, n) ==
  IF n = 0 THEN {<<>>}
  ELSE {<<>>} \cup
       UNION {UNION {{<<Field(name, required)>> \o rest :
                        rest \in DefinitionsOver(used \cup {name}, n - 1)} :
                     required \in BOOLEAN} :
              name \in FieldNames \ used}
\* schema definitions: the declared fields in declaration order
Definitions == DefinitionsOver({}, MaxFields)
\* new Schema(definition)
Schema(definition) == <<"object", "Schema", definition>>
Schemas == {Schema(d) : d \in Definitions}

EntityKeys == FieldNames \cup {PrimaryKey}
ValuesOf(key) ==
  CASE key = "name" -> {Str("Ann"), Str("")}
    [] key = "age" -> {Num(5), Null}
    [] key = "updatedOn" -> {Num(9)}
    [] OTHER -> {Str("uuid-1")}
RECURSIVE EntitiesOver(_, _)
\* the entities with at most n own keys, none of them in `used`
EntitiesOver(used, n) ==
  IF n = 0 THEN {<<>>}
  ELSE {<<>>} \cup
       UNION {UNION {{<<[k |-> key, v |-> value]>> \o rest :
                        rest \in EntitiesOver(used \cup {key}, n - 1)} :
                     value \in ValuesOf(key)} :
              key \in EntityKeys \ used}
Entities == EntitiesOver({}, MaxKeys)

TypeTags == {SchemaTypes[f] : f \in DOMAIN SchemaTypes} \cup {"X"}
Values ==
  {Str("Ann"), Str(""), Num(5), Num(0), Bool(TRUE), Bool(FALSE), Null, Undef,
   Arr, TypedArr, Obj}

(***************************************************************************)
(* State                                                                   *)
(***************************************************************************)
VARIABLES
  ds,         \* the CanvaraDatasource instance, with the opts it was given
  model,      \* the Model it produced, with the table name it was asked for
  now,        \* the system clock, in epoch milliseconds
  lastStamp,  \* the greatest clock reading a payload bound so far (-1: none)
  prevStamp,  \* lastStamp as it was before this call's payload was built
  op,         \* the call in flight: [kind, pc, id, entity]
  validated,  \* what Schema.validate handed its callback in this call
  parsed,     \* what Schema.parseUpdateFields handed its callback in this call
  params,     \* the request payload built in this call
  genId,      \* the uuid.v4() of this call
  checked,    \* the validateEach call made directly: its arguments and result
  calls,      \* invocations of the client in this call, by method
  callbacks,  \* invocations of the caller's callback in this call: [err]
  trace       \* the waterfall's tasks in the order they ran in this call

vars ==
  <<ds, model, now, lastStamp, prevStamp, op, validated, parsed, params, genId,
    checked, calls, callbacks, trace>>

Idle == [kind |-> "none", pc |-> "idle", id |-> Undef, entity |-> <<>>]
NoCalls ==
  [asFunction |-> 0, putItem |-> 0, getItem |-> 0, updateItem |-> 0,
   deleteItem |-> 0]
NotYet == [done |-> FALSE]

Fresh ==
  /\ prevStamp' = -1
  /\ validated' = NotYet
  /\ parsed' = NotYet
  /\ params' = NotYet
  /\ genId' = Undef
  /\ checked' = NotYet
  /\ calls' = NoCalls
  /\ callbacks' = <<>>
  /\ trace' = <<>>

Init ==
  /\ ds = [state |-> "none"]
  /\ model = [state |-> "none"]
  /\ now = 0
  /\ lastStamp = -1
  /\ prevStamp = -1
  /\ op = Idle
  /\ validated = NotYet
  /\ parsed = NotYet
  /\ params = NotYet
  /\ genId = Undef
  /\ checked = NotYet
  /\ calls = NoCalls
  /\ callbacks = <<>>
  /\ trace = <<>>

Ready == model.state = "created" /\ op.pc = "idle"
definition == model.self.schema[3]

\* whether :updatedOn is still bound to the timestamp when parseUpdateFields
\* ends: updateSet.forEach binds ':' + key for every key it assigns, updatedOn
\* included
clockBound(r) == \A i \in 1..Len(r.updateSet) : r.updateSet[i] # "updatedOn"

\* a payload bound the clock's reading `timestamp` to updatedOn
Stamped(timestamp) ==
  /\ prevStamp' = lastStamp
  /\ lastStamp' = IF timestamp > lastStamp THEN timestamp ELSE lastStamp

(***************************************************************************)
(* The environment: the clock, construction                                *)
(***************************************************************************)
\* a call reads the clock once, when it builds its payload: the clock's advance
\* is taken between calls
Tick ==
  /\ op.pc = "idle"
  /\ now < MaxClock
  /\ now' = now + 1
  /\ UNCHANGED <<ds, model, lastStamp, prevStamp, op, validated, parsed, params,
                 genId, checked, calls, callbacks, trace>>

Construct ==
  /\ ds.state = "none"
  /\ \E region \in Regions, applicationPrefix \in Prefixes :
       LET opts == [region |-> region, applicationPrefix |-> applicationPrefix]
       IN ds' = [self |-> CanvaraDatasource(opts), opts |-> opts,
                 state |-> CanvaraDatasource(opts).state]
  /\ UNCHANGED <<model, now, lastStamp, prevStamp, op, validated, parsed, params,
                 genId, checked, calls, callbacks, trace>>

\* datasource.model(tableName, primaryKey, schema)
CreateModel ==
  /\ ds.state = "constructed"
  /\ model.state = "none"
  /\ \E tableName \in TableNames, schema \in Schemas \cup {Undef} :
       LET m == Model(prefixed(ds.self, tableName), PrimaryKey, schema,
                      ds.self.dynamodb)
       IN model' = [self |-> m, asked |-> tableName, state |-> m.state]
  /\ UNCHANGED <<ds, now, lastStamp, prevStamp, op, validated, parsed, params,
                 genId, checked, calls, callbacks, trace>>

(***************************************************************************)
(* Model.insert, Model.update, Model.findById, Model.delete                *)
(***************************************************************************)
insert ==
  /\ Ready
  /\ \E entity \in Entities :
       op' = [kind |-> "insert", pc |-> "validate", id |-> Undef, entity |-> entity]
  /\ Fresh
  /\ UNCHANGED <<ds, model, now, lastStamp>>

update ==
  /\ Ready
  /\ \E id \in Ids, entity \in Entities :
       op' = [kind |-> "update", pc |-> "validate", id |-> id, entity |-> entity]
  /\ Fresh
  /\ UNCHANGED <<ds, model, now, lastStamp>>

findById ==
  /\ Ready
  /\ \E id \in Ids :
       op' = [kind |-> "findById", pc |-> "payload", id |-> id, entity |-> <<>>]
  /\ Fresh
  /\ UNCHANGED <<ds, model, now, lastStamp>>

delete ==
  /\ Ready
  /\ \E id \in Ids :
       op' = [kind |-> "delete", pc |-> "payload", id |-> id, entity |-> <<>>]
  /\ Fresh
  /\ UNCHANGED <<ds, model, now, lastStamp>>

\* first task of insert and update: _self.schema.validate(entity, cb); an error
\* ends the waterfall in the caller's callback
ValidateTask ==
  /\ op.pc = "validate"
  /\ LET r == validate(definition, op.entity)
     IN /\ validated' = [done |-> TRUE, error |-> r.error,
                         validatedEntity |-> r.validatedEntity]
        /\ IF r.error # Null
           THEN /\ callbacks' = Append(callbacks, [err |-> r.error])
                /\ op' = [op EXCEPT !.pc = "done"]
           ELSE /\ callbacks' = callbacks
                /\ op' = [op EXCEPT !.pc = "payload"]
  /\ trace' = Append(trace, "validate")
  /\ UNCHANGED <<ds, model, now, lastStamp, prevStamp, parsed, params, genId,
                 checked, calls>>

\* insert's second task: _self.getPutRequestPayload(validatedEntity, cb)
PutPayloadTask ==
  /\ op.pc = "payload"
  /\ op.kind = "insert"
  /\ \E id \in UUIDs :
       /\ genId' = Str(id)
       /\ params' = [done |-> TRUE,
                     p |-> getPutRequestPayload(model.self, validated.validatedEntity,
                                                Str(id), now)]
  /\ Stamped(now)
  /\ op' = [op EXCEPT !.pc = "submit"]
  /\ trace' = Append(trace, "payload")
  /\ UNCHANGED <<ds, model, now, validated, parsed, checked, calls, callbacks>>

\* update's second task: _self.getUpdateRequestPayload(id, validatedEntity, cb),
\* itself a waterfall of parseUpdateFields and the _.extend of its result
UpdatePayloadTask ==
  /\ op.pc = "payload"
  /\ op.kind = "update"
  /\ LET r == parseUpdateFields(definition, validated.validatedEntity, now)
     IN /\ parsed' = [done |-> TRUE, input |-> validated.validatedEntity,
                      timestamp |-> now, r |-> r]
        /\ IF r.error # Null
           THEN /\ callbacks' = Append(callbacks, [err |-> r.error])
                /\ op' = [op EXCEPT !.pc = "done"]
                /\ UNCHANGED <<params, lastStamp, prevStamp>>
           ELSE /\ callbacks' = callbacks
                /\ op' = [op EXCEPT !.pc = "submit"]
                /\ params' = [done |-> TRUE,
                              p |-> getUpdateRequestPayload(model.self, op.id, r.params)]
                /\ IF clockBound(r)
                   THEN Stamped(now)
                   ELSE UNCHANGED <<lastStamp, prevStamp>>
  /\ trace' = Append(trace, "payload")
  /\ UNCHANGED <<ds, model, now, validated, genId, checked, calls>>

\* first task of findById and delete
KeyPayloadTask ==
  /\ op.pc = "payload"
  /\ op.kind \in {"findById", "delete"}
  /\ params' = [done |-> TRUE,
                p |-> IF op.kind = "findById"
                      THEN getGetRequestPayload(model.self, op.id)
                      ELSE getDeleteRequestPayload(model.self, op.id)]
  /\ op' = [op EXCEPT !.pc = "submit"]
  /\ trace' = Append(trace, "payload")
  /\ UNCHANGED <<ds, model, now, lastStamp, prevStamp, validated, parsed, genId,
                 checked, calls, callbacks>>

\* insert's last task: _self.dynamodb(params, cb) calls the client itself, which
\* is an object: the call throws a TypeError out of the waterfall
PutSubmitTask ==
  /\ op.pc = "submit"
  /\ op.kind = "insert"
  /\ IF isFunction(model.self.dynamodb)
     THEN /\ calls' = [calls EXCEPT !.asFunction = @ + 1]
          /\ op' = [op EXCEPT !.pc = "awaiting"]
     ELSE /\ calls' = calls
          /\ op' = [op EXCEPT !.pc = "threw"]
  /\ trace' = Append(trace, "submit")
  /\ UNCHANGED <<ds, model, now, lastStamp, prevStamp, validated, parsed, params,
                 genId, checked, callbacks>>

\* the last task of update, findById and delete: _self.dynamodb.<method>(params, cb)
SubmitTask ==
  /\ op.pc = "submit"
  /\ op.kind \in {"update", "findById", "delete"}
  /\ calls' = CASE op.kind = "update" -> [calls EXCEPT !.updateItem = @ + 1]
                [] op.kind = "findById" -> [calls EXCEPT !.getItem = @ + 1]
                [] op.kind = "delete" -> [calls EXCEPT !.deleteItem = @ + 1]
  /\ op' = [op EXCEPT !.pc = "awaiting"]
  /\ trace' = Append(trace, "submit")
  /\ UNCHANGED <<ds, model, now, lastStamp, prevStamp, validated, parsed, params,
                 genId, checked, callbacks>>

\* the client answers the request: cb(err) or cb(null, data), passed through
ServiceResponds ==
  /\ op.pc = "awaiting"
  /\ \E err \in {Null, <<"ServiceError", "ConditionalCheckFailedException">>} :
       callbacks' = Append(callbacks, [err |-> err])
  /\ op' = [op EXCEPT !.pc = "done"]
  /\ UNCHANGED <<ds, model, now, lastStamp, prevStamp, validated, parsed, params,
                 genId, checked, calls, trace>>

\* the call is over; the next one starts from a clean slate
Return ==
  /\ op.pc \in {"done", "threw"}
  /\ op' = Idle
  /\ Fresh
  /\ UNCHANGED <<ds, model, now, lastStamp>>

(***************************************************************************)
(* The methods called on their own                                         *)
(***************************************************************************)
\* model.getPutRequestPayload(entity, callback)
CallGetPutRequestPayload ==
  /\ Ready
  /\ \E entity \in Entities, id \in UUIDs :
       /\ genId' = Str(id)
       /\ params' = [done |-> TRUE,
                     p |-> getPutRequestPayload(model.self, entity, Str(id), now)]
       /\ op' = [kind |-> "getPutRequestPayload", pc |-> "done", id |-> Undef,
                 entity |-> entity]
  /\ Stamped(now)
  /\ callbacks' = Append(callbacks, [err |-> Null])
  /\ UNCHANGED <<ds, model, now, validated, parsed, checked, calls, trace>>

\* model.getUpdateRequestPayload(id, entity, callback)
CallGetUpdateRequestPayload ==
  /\ Ready
  /\ \E id \in Ids, entity \in Entities :
       LET r == parseUpdateFields(definition, entity, now)
       IN /\ parsed' = [done |-> TRUE, input |-> entity, timestamp |-> now,
                        r |-> r]
          /\ callbacks' = Append(callbacks, [err |-> r.error])
          /\ op' = [kind |-> "getUpdateRequestPayload", pc |-> "done", id |-> id,
                    entity |-> entity]
          /\ IF r.error # Null
             THEN UNCHANGED <<params, lastStamp, prevStamp>>
             ELSE /\ params' = [done |-> TRUE,
                                p |-> getUpdateRequestPayload(model.self, id,
                                                              r.params)]
                  /\ IF clockBound(r)
                     THEN Stamped(now)
                     ELSE UNCHANGED <<lastStamp, prevStamp>>
  /\ UNCHANGED <<ds, model, now, validated, genId, checked, calls, trace>>

Next ==
  \/ Tick
  \/ Construct
  \/ CreateModel
  \/ insert
  \/ update
  \/ findById
  \/ delete
  \/ ValidateTask
  \/ PutPayloadTask
  \/ UpdatePayloadTask
  \/ KeyPayloadTask
  \/ PutSubmitTask
  \/ SubmitTask
  \/ ServiceResponds
  \/ Return
  \/ CallGetPutRequestPayload
  \/ CallGetUpdateRequestPayload

Spec == Init /\ [][Next]_vars

(***************************************************************************)
(* validateEach on its own: a function of its arguments                    *)
(***************************************************************************)
InitTypes ==
  /\ ds = [state |-> "none"]
  /\ model = [state |-> "none"]
  /\ now = 0
  /\ lastStamp = -1
  /\ prevStamp = -1
  /\ op = Idle
  /\ validated = NotYet
  /\ parsed = NotYet
  /\ params = NotYet
  /\ genId = Undef
  /\ \E key \in FieldNames, value \in Values, schemaType \in TypeTags :
       checked = [done |-> FALSE, key |-> key, value |-> value,
                  schemaType |-> schemaType, error |-> Undef]
  /\ calls = NoCalls
  /\ callbacks = <<>>
  /\ trace = <<>>

\* schema.validateEach(key, value, schemaType)
CallValidateEach ==
  /\ ~checked.done
  /\ checked' = [checked EXCEPT !.done = TRUE,
                                !.error = validateEach(checked.key, checked.value,
                                                       checked.schemaType)]
  /\ UNCHANGED <<ds, model, now, lastStamp, prevStamp, op, validated, parsed,
                 params, genId, calls, callbacks, trace>>

NextTypes == CallValidateEach

SpecTypes == InitTypes /\ [][NextTypes]_vars

(***************************************************************************)
(* Properties                                                              *)
(***************************************************************************)
Range(seq) == {seq[i] : i \in 1..Len(seq)}
Min(S) == CHOOSE x \in S : \A y \in S : x <= y
isValidationError(e) == e[1] = "ValidationError"
\* the positions of the declared required fields that entity e lacks or holds
\* a falsy value for
MissingRequired(e) ==
  {i \in 1..Len(definition) :
     definition[i].v.required /\ ~Truthy(Get(e, definition[i].k))}
\* the positions of the own keys of e that are declared required and falsy
InvalidKeys(e) ==
  {i \in 1..Len(e) :
     /\ hasOwnProperty(definition, e[i].k)
     /\ Get(definition, e[i].k).required
     /\ ~Truthy(e[i].v)}
\* a value of the kind a type tag declares
Matches(schemaType, v) ==
  CASE schemaType = "S" -> isString(v)
    [] schemaType = "N" -> isNumber(v)
    [] schemaType = "B" -> isTypedArray(v) \/ isString(v)
    [] schemaType \in {"SS", "NS", "BS", "L"} -> isArray(v)
    [] schemaType = "M" -> v = Obj
    [] schemaType = "BOOL" -> isBoolean(v)
    [] schemaType = "NULL" -> isNull(v)
    [] OTHER -> FALSE
TenTags == {SchemaTypes[f] : f \in DOMAIN SchemaTypes}
\* the timestamp an update payload binds to :updatedOn
BoundUpdatedOn == Get(params.p.ExpressionAttributeValues, ":updatedOn")
isPrefix(p, str) == Len(p) <= Len(str) /\ SubSeq(str, 1, Len(p)) = p

\* C1: whenever an entity lacks (or holds a falsy value for) a field declared
\* required, validate reports the ValidationError "<field> is required" for the
\* first such field in declaration order, whatever fields are declared after
\* it, and insert / update end in that error without any call to the client.
C1_FirstMissingRequiredFieldIsReported ==
  (validated.done /\ MissingRequired(op.entity) # {}) =>
    LET first == definition[Min(MissingRequired(op.entity))].k
        expected == ValidationError(first \o " is required")
    IN /\ validated.error = expected
       /\ calls = NoCalls
       /\ op.kind \in {"insert", "update"} => callbacks = <<[err |-> expected]>>

C4_InsertPayloadHoldsGeneratedKey ==
  (op.kind \in {"insert", "getPutRequestPayload"} /\ params.done) =>
    LET Item == params.p.Item
    IN /\ Get(Item, PrimaryKey) = genId
       /\ Cardinality({i \in 1..Len(Item) : Item[i].k = PrimaryKey}) = 1
       /\ isNumber(Get(Item, "createdOn"))
       /\ Get(Item, "createdOn") = Get(Item, "updatedOn")
       /\ params.p.ConditionExpression = "attribute_not_exists(" \o PrimaryKey \o ")"

\* C4's case: a payload built from an entity that already held another value
\* under the primary-key name
C4_Witness ==
  /\ op.kind = "getPutRequestPayload"
  /\ params.done
  /\ hasOwnProperty(op.entity, PrimaryKey)
  /\ Get(op.entity, PrimaryKey) # genId

\* C5: an insert or update that has ended has fired the caller's callback
\* exactly once; if validation and payload construction succeeded the matching
\* client method (putItem for insert, updateItem for update) was invoked exactly
\* once, after validation and then payload construction; otherwise it was not
\* invoked at all.
C5_ValidateThenBuildThenSubmitOnce ==
  (op.kind \in {"insert", "update"} /\ op.pc \in {"done", "threw"}) =>
    LET submitted == IF op.kind = "insert" THEN calls.putItem ELSE calls.updateItem
    IN /\ Len(callbacks) = 1
       /\ IF validated.error = Null /\ params.done
          THEN submitted = 1 /\ trace = <<"validate", "payload", "submit">>
          ELSE submitted = 0

C7_UpdateFieldsAreClassified ==
  parsed.done =>
    LET E == parsed.input
        r == parsed.r
        set == Range(r.updateSet)
        remove == Range(r.removeSet)
    IN IF InvalidKeys(E) # {}
       THEN LET first == Min(InvalidKeys(E))
            IN /\ r.error = ValidationError(E[first].k \o " is required")
               /\ ~params.done
               /\ \A key \in set \cup remove : IndexOf(E, key) < first
       ELSE /\ r.error = Null
            /\ isPrefix("SET updatedOn = :updatedOn", r.params.UpdateExpression)
            /\ \A i \in 1..Len(E) :
                 LET key == E[i].k
                 IN IF ~hasOwnProperty(definition, key)
                    THEN key \notin set /\ key \notin remove
                    ELSE IF Truthy(E[i].v)
                    THEN /\ key \in set
                         /\ key \notin remove
                         /\ Get(r.params.ExpressionAttributeValues, ":" \o key)
                              = E[i].v
                    ELSE key \in remove /\ key \notin set

\* C7's case: a call that set one field and removed another
C7_Witness ==
  /\ op.kind = "getUpdateRequestPayload"
  /\ parsed.done
  /\ parsed.r.error = Null
  /\ Len(parsed.r.updateSet) = 1
  /\ Len(parsed.r.removeSet) = 1

C9_ModelTableNameIsPrefixed ==
  /\ ds.state # "none" =>
       (ds.state = "threw"
          <=> (~Truthy(ds.opts.region) \/ ~Truthy(ds.opts.applicationPrefix)))
  /\ model.state = "created" =>
       /\ model.self.tableName = ToStr(ds.opts.applicationPrefix) \o model.asked
       /\ model.self.dynamodb = ds.self.dynamodb

=============================================================================
